---- MODULE Spec2Model ----
(***************************************************************************)
(* The FilePizza transfer protocol: FilePizzaUploader (sender) and         *)
(* FilePizzaDownloader (receiver) as two event-driven state machines       *)
(* joined by a reliable ordered channel per connection.                    *)
(*                                                                         *)
(* One step of the model is one JavaScript task: a message handler, a      *)
(* timer callback (sendNextChunk), a transport event or a call of the      *)
(* public API.  The continuation of the async storeCompletedFile runs as   *)
(* a microtask, before the receiver's next task.                           *)
(*                                                                         *)
(* Sizes are in bytes with the chunk size scaled down; a byte of a file    *)
(* is named by its position, so a chunk carries the positions it covers.   *)
(***************************************************************************)
EXTENDS Integers, Sequences, FiniteSets, TLC

\* ---------------------------------------------------------------- bounds
\* chunks of the largest file on offer
MaxChunks == 2
\* pauseDownload calls per receiver
MaxPause == 1
\* setFiles calls on the sender
MaxSetFiles == 2
\* submitPassword calls per receiver
MaxPasswordTries == 2
\* messages a non-conforming peer may inject
MaxRaw == 2
\* how far outside [0, size] a requested offset may lie
MaxOffsetSkew == 1
\* initialize() calls on one instance (connect() makes one of them)
MaxInitialize == 2

\* sendFileChunks: const CHUNK_SIZE = 256 * 1024, scaled to 2 bytes
CHUNK_SIZE == 2

\* ---------------------------------------------------------------- values
\* JavaScript undefined, for optional strings
Undefined == "undefined"
None == <<>>
Some(x) == <<x>>

\* enum ConnectionStatus
Pending == "PENDING"
Ready == "READY"
Paused == "PAUSED"
Uploading == "UPLOADING"
Downloading == "DOWNLOADING"
Done == "DONE"
Authenticating == "AUTHENTICATING"
InvalidPassword == "INVALID_PASSWORD"
Closed == "CLOSED"
Error == "ERROR"

\* connections (one DataConnection each) and the peer identity of each:
\* connections 1 and 3 come from the same Peer, connection 2 from another
Conns == {1, 2, 3}
PeerOf(c) == IF c = 3 THEN 1 ELSE c
PeerIds == {PeerOf(c) : c \in Conns}

Min(a, b) == IF a <= b THEN a ELSE b
Max(a, b) == IF a >= b THEN a ELSE b

RECURSIVE SumSizes(_)
SumSizes(fs) == IF fs = <<>> THEN 0 ELSE Head(fs).size + SumSizes(Tail(fs))

\* a quotient a / b of two numbers, kept exact
Ratio(a, b) == [num |-> a, den |-> b]
\* 0 / 0
IsNaN(r) == r.num = 0 /\ r.den = 0
\* r <= s for quotients with positive denominators
RatioLeq(r, s) == r.num * s.den <= s.num * r.den

\* ---------------------------------------------------------------- files
File(n, s) == [name |-> n, size |-> s]
BigSize == (MaxChunks - 1) * CHUNK_SIZE + 1
\* the file lists the application hands to setFiles
Offers ==
  { <<>>,
    <<File("a", BigSize)>>,
    <<File("a", BigSize), File("b", 0)>>,
    <<File("a", 1), File("b", BigSize)>> }
FileNames == {"a", "b"}
Passwords == {Undefined, "secret"}

\* Blob.slice(start, end): the positions start..end-1 of the file, with
\* negative arguments counted from the end and both clamped to the size
SliceBound(size, x) == IF x < 0 THEN Max(size + x, 0) ELSE Min(x, size)
\* slice that returns the first bytes of the file whatever the start
sliceFromZero(file, start, end) ==
  LET s == SliceBound(file.size, start)
      e == SliceBound(file.size, end)
      n == Max(e - s, 0)
  IN  [i \in 1..n |-> i - 1]

slice(file, start, end) ==
  LET s == SliceBound(file.size, start)
      e == SliceBound(file.size, end)
      n == Max(e - s, 0)
  IN  [i \in 1..n |-> s + i - 1]

\* FilePizzaUploader.findFile: the first file of that name, or None
RECURSIVE findFile(_, _)
findFile(fs, fileName) ==
  IF fs = <<>> THEN None
  ELSE IF Head(fs).name = fileName THEN Some(Head(fs))
  ELSE findFile(Tail(fs), fileName)

\* FilePizzaUploader.getFileInfo
getFileInfo(fs) == [i \in 1..Len(fs) |-> [fileName |-> fs[i].name, size |-> fs[i].size]]
\* FilePizzaUploader.getTotalBytes
getTotalBytes(fs) == SumSizes(fs)

\* ---------------------------------------------------------------- messages
MsgRequestInfo == [type |-> "RequestInfo"]
MsgUsePassword(pw) == [type |-> "UsePassword", password |-> pw]
MsgPasswordRequired(err) == [type |-> "PasswordRequired", errorMessage |-> err]
MsgInfo(infos) == [type |-> "Info", files |-> infos]
MsgStart(n, o) == [type |-> "Start", fileName |-> n, offset |-> o]
MsgResume(n, o) == [type |-> "Resume", fileName |-> n, offset |-> o]
MsgPause == [type |-> "Pause"]
MsgDone == [type |-> "Done"]
MsgReport == [type |-> "Report"]
MsgError(e) == [type |-> "Error", error |-> e]
MsgChunk(n, o, b, f) ==
  [type |-> "Chunk", fileName |-> n, offset |-> o, bytes |-> b, final |-> f]

\* ---------------------------------------------------------------- state
VARIABLES
  files,        \* FilePizzaUploader.files
  password,     \* FilePizzaUploader.password
  connections,  \* FilePizzaUploader.connections: peer id -> Some(c), the
                \* connection whose context object the map holds, or None
  ctx,          \* the context object made for each connection, or None
  loops,        \* the sender's timer queue: scheduled sendNextChunk closures
  toS,          \* per connection, messages in flight to the sender
  toR,          \* per connection, messages in flight to the receiver
  link,         \* per connection, the transport as each end sees it
  recv,         \* per connection, the FilePizzaDownloader at its far end
  used,         \* how often each bounded input was used
  hist,         \* per connection, what has happened on it so far
  life          \* per instance (uploader, downloader): its Peer, channel,
                \* renewal timer and the initialize() and stop() calls running

vars == <<files, password, connections, ctx, loops, toS, toR, link, recv, used,
          hist, life>>

\* the whole state as one value, so that a handler is a function on it;
\* threw is set when the handler leaves by an exception
World ==
  [files |-> files, password |-> password, connections |-> connections,
   ctx |-> ctx, loops |-> loops, toS |-> toS, toR |-> toR, link |-> link,
   recv |-> recv, used |-> used, hist |-> hist, life |-> life,
   threw |-> FALSE]

Becomes(w) ==
  /\ files' = w.files
  /\ password' = w.password
  /\ connections' = w.connections
  /\ ctx' = w.ctx
  /\ loops' = w.loops
  /\ toS' = w.toS
  /\ toR' = w.toR
  /\ link' = w.link
  /\ recv' = w.recv
  /\ used' = w.used
  /\ hist' = w.hist
  /\ life' = w.life

\* ---------------------------------------------------------------- transport
\* DataConnection.send at the sender's end: queued for the receiver while
\* the connection is open; once either end has closed or the transport has
\* dropped, what is in flight is lost
connSend(w, c, m) ==
  IF w.link[c].sOpen /\ w.link[c].phase = "up" THEN [w EXCEPT !.toR[c] = Append(@, m)] ELSE w

\* DataConnection.send at the receiver's end
connectionSend(w, c, m) ==
  IF w.link[c].rOpen /\ w.link[c].phase = "up" THEN [w EXCEPT !.toS[c] = Append(@, m)] ELSE w

\* ---------------------------------------------------------------- sender
\* FilePizzaUploader.handleClose
uploaderHandleClose(w, c) ==
  LET reg == w.connections[PeerOf(c)] IN
  IF reg = None THEN w
  ELSE [w EXCEPT !.ctx[reg[1]] = Some([@[1] EXCEPT !.status = Closed]),
                 !.connections[PeerOf(c)] = None]

\* DataConnection.close at the sender's end: nothing more is delivered to
\* it, its 'close' listener runs at once and the far end will see a close
connClose(w, c) ==
  IF ~w.link[c].sOpen THEN w
  ELSE uploaderHandleClose(
         [w EXCEPT !.link[c].sOpen = FALSE,
                   !.link[c].sCloseEv = FALSE,
                   !.link[c].rCloseEv = w.link[c].rOpen,
                   !.link[c].phase = "down",
                   !.toS[c] = <<>>,
                   !.toR[c] = <<>>], c)

\* sendNextChunk without its test of the connection and the status
sendNextChunkAlways(w, c, k, file, offset) ==
  LET context == w.ctx[k][1] IN
    LET end == Min(file.size, offset + CHUNK_SIZE)
        chunkSize == end - offset
        final == end >= file.size
        sent == connSend(w, c, MsgChunk(file.name, offset,
                                        slice(file, offset, end), final))
        progressed == [context EXCEPT
                         !.uploadingOffset = Some(end),
                         !.currentFileProgress = Ratio(end, file.size),
                         !.bytesTransferred = @ + chunkSize]
    IN
    IF w.connections[PeerOf(c)] = None
    THEN \* getProgressInfo: throw new Error('Connection not found')
         [sent EXCEPT !.ctx[k] = Some(progressed), !.threw = TRUE]
    ELSE IF final
    THEN IF context.fileIndex < context.totalFiles - 1
         THEN [sent EXCEPT !.ctx[k] = Some([progressed EXCEPT
                   !.fileIndex = @ + 1,
                   !.currentFileProgress = Ratio(0, 1),
                   !.status = Ready])]
         ELSE [sent EXCEPT !.ctx[k] = Some([progressed EXCEPT
                   !.fileIndex = context.totalFiles,
                   !.currentFileProgress = Ratio(1, 1),
                   !.status = Done])]
    ELSE [sent EXCEPT !.ctx[k] = Some(progressed),
                      !.loops = Append(@, [conn |-> c, cx |-> k,
                                           file |-> file, offset |-> end])]

\* the closure sendNextChunk of sendFileChunks(conn, context, file, offset):
\* c is conn, k the connection whose context object it captured
sendNextChunk(w, c, k, file, offset) ==
  LET context == w.ctx[k][1] IN
  IF ~w.link[c].sOpen \/ context.status # Uploading THEN w
  ELSE
    LET end == Min(file.size, offset + CHUNK_SIZE)
        chunkSize == end - offset
        final == end >= file.size
        sent == connSend(w, c, MsgChunk(file.name, offset,
                                        slice(file, offset, end), final))
        progressed == [context EXCEPT
                         !.uploadingOffset = Some(end),
                         !.currentFileProgress = Ratio(end, file.size),
                         !.bytesTransferred = @ + chunkSize]
    IN
    IF w.connections[PeerOf(c)] = None
    THEN \* getProgressInfo: throw new Error('Connection not found')
         [sent EXCEPT !.ctx[k] = Some(progressed), !.threw = TRUE]
    ELSE IF final
    THEN IF context.fileIndex < context.totalFiles - 1
         THEN [sent EXCEPT !.ctx[k] = Some([progressed EXCEPT
                   !.fileIndex = @ + 1,
                   !.currentFileProgress = Ratio(0, 1),
                   !.status = Ready])]
         ELSE [sent EXCEPT !.ctx[k] = Some([progressed EXCEPT
                   !.fileIndex = context.totalFiles,
                   !.currentFileProgress = Ratio(1, 1),
                   !.status = Done])]
    ELSE [sent EXCEPT !.ctx[k] = Some(progressed),
                      !.loops = Append(@, [conn |-> c, cx |-> k,
                                           file |-> file, offset |-> end])]

\* FilePizzaUploader.sendFileChunks: the first sendNextChunk runs at once
sendFileChunks(w, c, k, file, startOffset) ==
  sendNextChunk(w, c, k, file, startOffset)

\* FilePizzaUploader.handleRequestInfo
handleRequestInfo(w, c, k, message) ==
  IF w.password # Undefined /\ w.password # ""
  THEN [connSend(w, c, MsgPasswordRequired(""))
          EXCEPT !.ctx[k] = Some([@[1] EXCEPT !.status = Authenticating])]
  ELSE [connSend(w, c, MsgInfo(w.ctx[k][1].filesInfo))
          EXCEPT !.ctx[k] = Some([@[1] EXCEPT !.status = Ready])]

\* handleUsePassword without the comparison: any password is accepted
handleUsePasswordAny(w, c, k, message) ==
  [connSend(w, c, MsgInfo(w.ctx[k][1].filesInfo))
     EXCEPT !.ctx[k] = Some([@[1] EXCEPT !.status = Ready])]

\* handleUsePassword for which one wrong password is final
handleUsePasswordFatal(w, c, k, message) ==
  IF message.password = w.password /\ w.ctx[k][1].status # InvalidPassword
  THEN [connSend(w, c, MsgInfo(w.ctx[k][1].filesInfo))
          EXCEPT !.ctx[k] = Some([@[1] EXCEPT !.status = Ready])]
  ELSE [connSend(w, c, MsgPasswordRequired("Incorrect password"))
          EXCEPT !.ctx[k] = Some([@[1] EXCEPT !.status = InvalidPassword])]

\* FilePizzaUploader.handleUsePassword
handleUsePassword(w, c, k, message) ==
  IF message.password = w.password
  THEN [connSend(w, c, MsgInfo(w.ctx[k][1].filesInfo))
          EXCEPT !.ctx[k] = Some([@[1] EXCEPT !.status = Ready])]
  ELSE [connSend(w, c, MsgPasswordRequired("Incorrect password"))
          EXCEPT !.ctx[k] = Some([@[1] EXCEPT !.status = InvalidPassword])]

\* handleStart that records the request before it looks the file up
handleStartMarking(w, c, k, message) ==
  LET file == findFile(w.files, message.fileName)
      marked == [w EXCEPT !.ctx[k] = Some([@[1] EXCEPT
                      !.status = Uploading,
                      !.uploadingFileName = message.fileName,
                      !.uploadingOffset = Some(message.offset)])]
  IN
  IF file = None
  THEN connSend(marked, c, MsgError("File not found"))
  ELSE sendFileChunks(marked, c, k, file[1], message.offset)

\* FilePizzaUploader.handleStart
handleStart(w, c, k, message) ==
  LET file == findFile(w.files, message.fileName) IN
  IF file = None
  THEN connSend(w, c, MsgError("File not found"))
  ELSE sendFileChunks(
         [w EXCEPT !.ctx[k] = Some([@[1] EXCEPT
                      !.status = Uploading,
                      !.uploadingFileName = message.fileName,
                      !.uploadingOffset = Some(message.offset)])],
         c, k, file[1], message.offset)

\* handlePause that marks every stored context, not only the sender's own
handlePauseAll(w, c, k) ==
  [w EXCEPT !.ctx = [x \in Conns |->
                       IF w.ctx[x] = None THEN None
                       ELSE Some([w.ctx[x][1] EXCEPT !.status = Paused])]]

\* FilePizzaUploader.handlePause
handlePause(w, c, k) ==
  [w EXCEPT !.ctx[k] = Some([@[1] EXCEPT !.status = Paused])]

\* handleResume that accepts only the offset the context has reached
handleResumeChecked(w, c, k, message) ==
  LET file == findFile(w.files, message.fileName) IN
  IF file = None
  THEN connSend(w, c, MsgError("File not found"))
  ELSE IF w.ctx[k][1].uploadingOffset # Some(message.offset)
  THEN connSend(w, c, MsgError("Invalid offset"))
  ELSE sendFileChunks(
         [w EXCEPT !.ctx[k] = Some([@[1] EXCEPT
                      !.status = Uploading,
                      !.uploadingFileName = message.fileName,
                      !.uploadingOffset = Some(message.offset)])],
         c, k, file[1], message.offset)

\* FilePizzaUploader.handleResume
handleResume(w, c, k, message) ==
  LET file == findFile(w.files, message.fileName) IN
  IF file = None
  THEN connSend(w, c, MsgError("File not found"))
  ELSE sendFileChunks(
         [w EXCEPT !.ctx[k] = Some([@[1] EXCEPT
                      !.status = Uploading,
                      !.uploadingFileName = message.fileName,
                      !.uploadingOffset = Some(message.offset)])],
         c, k, file[1], message.offset)

\* FilePizzaUploader.handleDone
handleDone(w, c, k) ==
  connClose([w EXCEPT !.ctx[k] = Some([@[1] EXCEPT !.status = Done])], c)

\* FilePizzaUploader.handleData: the context is the one the map holds for
\* the peer; an exception in a handler is answered with an Error message
uploaderHandleData(w, c, message) ==
  LET reg == w.connections[PeerOf(c)] IN
  IF reg = None THEN w
  ELSE
    LET k == reg[1]
        r == CASE message.type = "RequestInfo" -> handleRequestInfo(w, c, k, message)
               [] message.type = "UsePassword" -> handleUsePassword(w, c, k, message)
               [] message.type = "Start" -> handleStart(w, c, k, message)
               [] message.type = "Pause" -> handlePause(w, c, k)
               [] message.type = "Resume" -> handleResume(w, c, k, message)
               [] message.type = "Done" -> handleDone(w, c, k)
               [] OTHER -> w
    IN IF r.threw
       THEN connSend([r EXCEPT !.threw = FALSE], c, MsgError("Failed to process message"))
       ELSE r

\* handleConnection without the test of conn.metadata
handleConnectionAll(w, c) ==
  [w EXCEPT !.ctx[c] = Some([status |-> Pending,
                             fileIndex |-> 0,
                             filesInfo |-> getFileInfo(w.files),
                             totalFiles |-> Len(w.files),
                             bytesTransferred |-> 0,
                             totalBytes |-> getTotalBytes(w.files),
                             currentFileProgress |-> Ratio(0, 1),
                             uploadingFileName |-> Undefined,
                             uploadingOffset |-> None]),
            !.connections[PeerOf(c)] = Some(c),
            !.link[c].listening = TRUE]

\* FilePizzaUploader.handleConnection: a report connection is announced
\* with a 'report' event and gets neither a context nor listeners
handleConnection(w, c) ==
  IF w.link[c].metadata = "report"
  THEN [w EXCEPT !.hist[c].reports = @ + 1]
  ELSE
  [w EXCEPT !.ctx[c] = Some([status |-> Pending,
                             fileIndex |-> 0,
                             filesInfo |-> getFileInfo(w.files),
                             totalFiles |-> Len(w.files),
                             bytesTransferred |-> 0,
                             totalBytes |-> getTotalBytes(w.files),
                             currentFileProgress |-> Ratio(0, 1),
                             uploadingFileName |-> Undefined,
                             uploadingOffset |-> None]),
            !.connections[PeerOf(c)] = Some(c),
            !.link[c].listening = TRUE]

\* FilePizzaUploader.handleError
uploaderHandleError(w, c) ==
  LET reg == w.connections[PeerOf(c)] IN
  IF reg = None THEN w
  ELSE connClose([w EXCEPT !.ctx[reg[1]] = Some([@[1] EXCEPT !.status = Error])], c)

\* FilePizzaUploader.setFiles
setFiles(w, fs) ==
  LET announce(k) == /\ fs # <<>>
                     /\ \E p \in PeerIds : w.connections[p] = Some(k)
                     /\ w.ctx[k][1].status = Ready
                     /\ w.link[k].sOpen
  IN [w EXCEPT !.files = fs,
               !.toR = [k \in Conns |->
                          IF announce(k) THEN Append(w.toR[k], MsgInfo(getFileInfo(fs)))
                          ELSE w.toR[k]]]

\* FilePizzaUploader.getProgressInfo, of the context the map holds for p
getProgressInfo(w, p) ==
  LET context == w.ctx[w.connections[p][1]][1] IN
  [fileIndex |-> context.fileIndex,
   fileName |-> IF context.uploadingFileName = Undefined THEN ""
                ELSE context.uploadingFileName,
   totalFiles |-> context.totalFiles,
   currentFileProgress |-> context.currentFileProgress,
   overallProgress |-> Ratio(context.bytesTransferred, context.totalBytes),
   bytesTransferred |-> context.bytesTransferred,
   totalBytes |-> context.totalBytes]

\* the record sendNextChunk hands to emit('progress', ...) when it sends the
\* chunk of file at offset on connection c, with context k
progressEvent(w, c, k, file, offset) ==
  LET end == Min(file.size, offset + CHUNK_SIZE)
      progressed == [w.ctx[k][1] EXCEPT
                       !.uploadingOffset = Some(end),
                       !.currentFileProgress = Ratio(end, file.size),
                       !.bytesTransferred = @ + (end - offset)]
  IN getProgressInfo([w EXCEPT !.ctx[k] = Some(progressed)], PeerOf(c))

\* ---------------------------------------------------------------- receiver
\* fileStreams is a Map: a sequence of entries, in insertion order, one per
\* key.  A stream keeps what was enqueued, whether its controller was closed
\* and whether it is locked (tee locks it)
StreamIndex(streams, fileName) ==
  LET hits == {i \in 1..Len(streams) : streams[i].name = fileName}
  IN  IF hits = {} THEN 0 ELSE CHOOSE i \in hits : TRUE

NewStream(fileName) ==
  [name |-> fileName, chunks |-> <<>>, closed |-> FALSE, locked |-> FALSE]

\* Map.set(fileName, new stream)
MapSet(streams, fileName) ==
  LET i == StreamIndex(streams, fileName) IN
  IF i = 0 THEN Append(streams, NewStream(fileName))
  ELSE [streams EXCEPT ![i] = NewStream(fileName)]

\* FilePizzaDownloader.initializeFileStreams
RECURSIVE SetAll(_, _)
SetAll(streams, infos) ==
  IF infos = <<>> THEN streams
  ELSE SetAll(MapSet(streams, Head(infos).fileName), Tail(infos))
initializeFileStreams(infos) == SetAll(<<>>, infos)

\* filesInfo.find(info => info.fileName === fileName)
RECURSIVE findInfo(_, _)
findInfo(infos, fileName) ==
  IF infos = <<>> THEN None
  ELSE IF Head(infos).fileName = fileName THEN Some(Head(infos))
  ELSE findInfo(Tail(infos), fileName)

\* FilePizzaDownloader.getProgress
getProgress(r) ==
  LET size == IF r.currentFileIndex < Len(r.filesInfo)
              THEN r.filesInfo[r.currentFileIndex + 1].size ELSE 0
  IN
  [fileIndex |-> r.currentFileIndex,
   fileName |-> IF r.currentFileIndex < Len(r.filesInfo)
                THEN r.filesInfo[r.currentFileIndex + 1].fileName ELSE "",
   totalFiles |-> Len(r.filesInfo),
   currentFileProgress |-> Ratio(r.currentFileBytesReceived,
                                 IF size = 0 THEN 1 ELSE size),
   overallProgress |-> Ratio(r.totalBytesReceived,
                             IF r.totalBytes = 0 THEN 1 ELSE r.totalBytes),
   bytesTransferred |-> r.totalBytesReceived,
   totalBytes |-> r.totalBytes]

\* requestNextFile that asks for nothing
requestNextFileNone(w, c) == w

\* FilePizzaDownloader.requestNextFile
requestNextFile(w, c) ==
  LET r == w.recv[c] IN
  IF ~r.connection \/ r.currentFileIndex >= Len(r.filesInfo) THEN w
  ELSE connectionSend(w, c, MsgStart(r.filesInfo[r.currentFileIndex + 1].fileName, 0))

\* FilePizzaDownloader.storeCompletedFile, up to its await: tee locks the
\* stream (and throws on a locked one, which the function catches); the
\* rest of the function waits in storing
storeCompletedFile(r, fileName) ==
  LET i == StreamIndex(r.fileStreams, fileName)
      fileInfo == findInfo(r.filesInfo, fileName)
  IN
  IF i = 0 \/ fileInfo = None THEN r
  ELSE IF r.fileStreams[i].locked THEN r
  ELSE [r EXCEPT !.fileStreams[i].locked = TRUE,
                 !.storing = Append(@, [fileName |-> fileInfo[1].fileName,
                                        size |-> fileInfo[1].size,
                                        data |-> r.fileStreams[i].chunks])]

\* storeCompletedFile after its await: completedFiles.push(completedFile)
storeCompletedFileResume(r) ==
  [r EXCEPT !.completedFiles = Append(@, Head(r.storing)),
            !.storing = Tail(@)]

\* the names in completedFiles, as a listener reads them
CompletedNames(r) == [i \in 1..Len(r.completedFiles) |-> r.completedFiles[i].fileName]

\* FilePizzaDownloader.handleChunk; enqueue on a closed stream throws after
\* the counters were updated, and handleData catches it
handleChunk(w, c, message) ==
  LET r == w.recv[c]
      i == StreamIndex(r.fileStreams, message.fileName)
      n == Len(message.bytes)
  IN
  IF i = 0 THEN w
  ELSE
    LET counted == [r EXCEPT !.currentFileBytesReceived = @ + n,
                             !.totalBytesReceived = @ + n]
    IN
    IF r.fileStreams[i].closed THEN [w EXCEPT !.recv[c] = counted]
    ELSE
      LET enqueued == [counted EXCEPT !.fileStreams[i].chunks = @ \o message.bytes] IN
      IF ~message.final THEN [w EXCEPT !.recv[c] = enqueued]
      ELSE
        LET stored == storeCompletedFile(
                        [enqueued EXCEPT !.fileStreams[i].closed = TRUE],
                        message.fileName)
            next == [stored EXCEPT !.currentFileIndex = @ + 1,
                                   !.currentFileBytesReceived = 0]
        IN
        IF next.currentFileIndex < Len(next.filesInfo)
        THEN requestNextFile([w EXCEPT !.recv[c] = next], c)
        ELSE [w EXCEPT !.recv[c] = [next EXCEPT
                         !.status = Done,
                         !.completeArg = Some(CompletedNames(next))]]

\* FilePizzaDownloader.handlePasswordRequired
handlePasswordRequired(w, c, message) ==
  [w EXCEPT !.recv[c] = [@ EXCEPT
      !.isPasswordRequired = TRUE,
      !.status = Authenticating,
      !.isPasswordInvalid = IF message.errorMessage # "" THEN TRUE ELSE @]]

\* FilePizzaDownloader.handleInfo
handleInfo(w, c, message) ==
  [w EXCEPT !.recv[c] = [@ EXCEPT
      !.filesInfo = message.files,
      !.totalBytes = SumSizes(message.files),
      !.isPasswordRequired = FALSE,
      !.isPasswordInvalid = FALSE,
      !.status = Ready]]

\* FilePizzaDownloader.handleError
downloaderHandleError(w, c, message) ==
  [w EXCEPT !.recv[c].status = Error]

\* FilePizzaDownloader.handleReport: emits 'reported' and navigates away
handleReport(w, c) ==
  [w EXCEPT !.recv[c].reported = TRUE]

\* FilePizzaDownloader.handleData
downloaderHandleData(w, c, message) ==
  CASE message.type = "PasswordRequired" -> handlePasswordRequired(w, c, message)
    [] message.type = "Info" -> handleInfo(w, c, message)
    [] message.type = "Chunk" -> handleChunk(w, c, message)
    [] message.type = "Error" -> downloaderHandleError(w, c, message)
    [] message.type = "Report" -> handleReport(w, c)
    [] OTHER -> w

\* DataConnection.close at the receiver's end: nothing more is delivered to
\* it, its 'close' listener (connectToPeer) runs at once and the far end
\* will see a close
connectionClose(w, c) ==
  IF ~w.link[c].rOpen THEN w
  ELSE [w EXCEPT !.link[c].rOpen = FALSE,
                 !.link[c].rCloseEv = FALSE,
                 !.link[c].sCloseEv = w.link[c].sOpen,
                 !.link[c].phase = "down",
                 !.toS[c] = <<>>,
                 !.toR[c] = <<>>,
                 !.recv[c].status = Closed]

\* FilePizzaDownloader.submitPassword
submitPassword(w, c, pw) ==
  IF ~w.recv[c].connection \/ w.recv[c].status # Authenticating
  THEN [w EXCEPT !.threw = TRUE]
  ELSE connectionSend(w, c, MsgUsePassword(pw))

\* FilePizzaDownloader.startDownload
startDownload(w, c) ==
  LET r == w.recv[c] IN
  IF ~r.connection \/ Len(r.filesInfo) = 0 \/ r.status # Ready
  THEN [w EXCEPT !.threw = TRUE]
  ELSE requestNextFile(
         [w EXCEPT !.recv[c] = [r EXCEPT
            !.status = Downloading,
            !.currentFileIndex = 0,
            !.currentFileBytesReceived = 0,
            !.totalBytesReceived = 0,
            !.fileStreams = initializeFileStreams(r.filesInfo)]], c)

\* pauseDownload without its test of the status
pauseDownloadAny(w, c) ==
  IF ~w.recv[c].connection THEN w
  ELSE [connectionSend(w, c, MsgPause) EXCEPT !.recv[c].status = Paused]

\* FilePizzaDownloader.pauseDownload
pauseDownload(w, c) ==
  IF ~w.recv[c].connection \/ w.recv[c].status # Downloading THEN w
  ELSE [connectionSend(w, c, MsgPause) EXCEPT !.recv[c].status = Paused]

\* FilePizzaDownloader.resumeDownload; filesInfo[currentFileIndex] is
\* undefined past the end of the list, and reading its fileName throws
resumeDownload(w, c) ==
  LET r == w.recv[c] IN
  IF ~r.connection \/ r.status # Paused THEN w
  ELSE IF r.currentFileIndex >= Len(r.filesInfo) THEN [w EXCEPT !.threw = TRUE]
  ELSE [connectionSend(w, c, MsgResume(r.filesInfo[r.currentFileIndex + 1].fileName,
                                       r.currentFileBytesReceived))
          EXCEPT !.recv[c].status = Downloading]

\* the loop of cancelDownload over fileStreams.values(): close() of a
\* controller that is already closed throws
RECURSIVE CloseAll(_, _)
CloseAll(streams, i) ==
  IF i > Len(streams) THEN [streams |-> streams, threw |-> FALSE]
  ELSE IF streams[i].closed THEN [streams |-> streams, threw |-> TRUE]
  ELSE CloseAll([streams EXCEPT ![i].closed = TRUE], i + 1)

\* FilePizzaDownloader.cancelDownload
cancelDownload(w, c) ==
  LET closing == CloseAll(w.recv[c].fileStreams, 1) IN
  IF closing.threw
  THEN [w EXCEPT !.recv[c].fileStreams = closing.streams, !.threw = TRUE]
  ELSE
    LET cleared == [w EXCEPT !.recv[c].fileStreams = <<>>]
        closed == IF cleared.recv[c].connection
                  THEN [connectionClose(cleared, c) EXCEPT !.recv[c].connection = FALSE]
                  ELSE cleared
    IN [closed EXCEPT !.recv[c].status = Closed]

\* FilePizzaDownloader.connectToPeer up to its promise: peer.connect
connectToPeer(w, c) ==
  [w EXCEPT !.recv[c].connection = TRUE,
            !.recv[c].status = Pending,
            !.link[c].phase = "offered"]

\* the 'open' listener of connectToPeer
onOpen(w, c) ==
  LET opened == [w EXCEPT !.link[c].phase = "up",
                          !.link[c].sOpen = TRUE,
                          !.link[c].rOpen = TRUE,
                          !.recv[c].status = Ready]
  IN IF opened.recv[c].connection THEN connectionSend(opened, c, MsgRequestInfo)
     ELSE opened

\* the 'close' listener of connectToPeer, for a close the receiver did not
\* make itself
onClose(w, c) ==
  [w EXCEPT !.link[c].rOpen = FALSE,
            !.link[c].rCloseEv = FALSE,
            !.recv[c].status = Closed]

\* the 'error' listener of connectToPeer
onError(w, c) ==
  [w EXCEPT !.recv[c].status = Error]

\* ---------------------------------------------------------------- steps
NewReceiver ==
  [status |-> Pending,
   connection |-> FALSE,
   filesInfo |-> <<>>,
   currentFileIndex |-> 0,
   currentFileBytesReceived |-> 0,
   totalBytesReceived |-> 0,
   totalBytes |-> 0,
   fileStreams |-> <<>>,
   isPasswordRequired |-> FALSE,
   isPasswordInvalid |-> FALSE,
   completedFiles |-> <<>>,
   storing |-> <<>>,
   completeArg |-> None,
   reported |-> FALSE]

NewLink ==
  [phase |-> "idle", sOpen |-> FALSE, rOpen |-> FALSE,
   sCloseEv |-> FALSE, rCloseEv |-> FALSE,
   metadata |-> Undefined, listening |-> FALSE]

\* the two classes with an initialize()
Instances == {"uploader", "downloader"}
Calls == 1..MaxInitialize

\* the fields of an instance after its constructor: no Peer, no channel, no
\* renewal timer; peers, channels and started count what was ever made,
\* opened, destroyed and listening are sets of its Peers, timers the
\* interval timers that run, calls the position of each initialize() call
\* with the Peer it made, stop the position of the stop() call
NewInstance ==
  [peer |-> None, peers |-> 0, opened |-> {}, destroyed |-> {}, listening |-> {},
   channelInfo |-> None, channels |-> 0,
   renewalTimer |-> None, timers |-> {}, started |-> 0,
   calls |-> [i \in Calls |-> [pc |-> "none", peer |-> 0]],
   stop |-> "none"]

\* FilePizzaDownloader.connectToPeer of a downloader that has a connection
\* c already: it closes c and connects again, on d; its fields are kept
reconnectToPeer(w, c, d) ==
  LET closed == connectionClose(w, c) IN
  [closed EXCEPT !.recv[d] = [closed.recv[c] EXCEPT !.connection = TRUE,
                                                    !.status = Pending],
                 !.recv[c] = [NewReceiver EXCEPT !.status = Closed],
                 !.link[d].phase = "offered"]

Init ==
  /\ files = <<>>
  /\ password \in Passwords
  /\ connections = [p \in PeerIds |-> None]
  /\ ctx = [c \in Conns |-> None]
  /\ loops = <<>>
  /\ toS = [c \in Conns |-> <<>>]
  /\ toR = [c \in Conns |-> <<>>]
  /\ link = [c \in Conns |-> NewLink]
  /\ recv = [c \in Conns |-> NewReceiver]
  /\ used = [setFiles |-> 0, raw |-> 0,
             pause |-> [c \in Conns |-> 0],
             tries |-> [c \in Conns |-> 0]]
  /\ hist = [c \in Conns |-> [matched |-> FALSE, info |-> FALSE, cancel |-> None, start |-> None,
                             reports |-> 0]]
  /\ life = [who \in Instances |-> NewInstance]

\* the receiver's event loop takes a new task only when no microtask waits
Idle(c) == recv[c].storing = <<>>

\* the application calls uploader.setFiles(fs)
SetFiles ==
  /\ used.setFiles < MaxSetFiles
  /\ \E fs \in Offers :
       Becomes([setFiles(World, fs) EXCEPT !.used.setFiles = @ + 1])

\* the application calls downloader.connect: peer.connect(uploaderPeerID)
Connect(c) ==
  /\ link[c].phase = "idle"
  /\ Idle(c)
  /\ Becomes(connectToPeer(World, c))

\* the uploader's Peer emits 'connection'
UploaderConnection(c) ==
  /\ link[c].phase = "offered"
  /\ Becomes([handleConnection(World, c) EXCEPT !.link[c].phase = "accepted"])

\* the data channel opens
Open(c) ==
  /\ link[c].phase = "accepted"
  /\ Idle(c)
  /\ Becomes(onOpen(World, c))

\* the uploader's connection emits 'data'
UploaderData(c) ==
  /\ link[c].sOpen
  /\ toS[c] # <<>>
  /\ LET message == Head(toS[c])
         matches == message.type = "UsePassword" /\ message.password = password
         arrived == [World EXCEPT !.toS[c] = Tail(@)]
     IN IF link[c].listening
        THEN Becomes([uploaderHandleData(arrived, c, message)
                        EXCEPT !.hist[c].matched = @ \/ matches])
        ELSE Becomes(arrived)

\* a timer of the uploader fires: the oldest scheduled sendNextChunk runs
Timer ==
  /\ loops # <<>>
  /\ LET l == Head(loops)
         r == sendNextChunk([World EXCEPT !.loops = Tail(@)],
                            l.conn, l.cx, l.file, l.offset)
     IN Becomes(r)

\* the downloader's connection emits 'data'
DownloaderData(c) ==
  /\ link[c].rOpen
  /\ toR[c] # <<>>
  /\ Idle(c)
  /\ Becomes([downloaderHandleData([World EXCEPT !.toR[c] = Tail(@)], c, Head(toR[c]))
                EXCEPT !.hist[c].info = @ \/ Head(toR[c]).type = "Info"])

\* the microtask that finishes storeCompletedFile
StoreCompleted(c) ==
  /\ ~Idle(c)
  /\ recv' = [recv EXCEPT ![c] = storeCompletedFileResume(@)]
  /\ UNCHANGED <<files, password, connections, ctx, loops, toS, toR, link, used, hist, life>>

\* the application calls downloader.submitPassword(pw)
SubmitPassword(c) ==
  /\ Idle(c)
  /\ used.tries[c] < MaxPasswordTries
  /\ \E pw \in {"secret", "wrong"} :
       LET r == submitPassword(World, c, pw) IN
       /\ ~r.threw
       /\ Becomes([r EXCEPT !.used.tries[c] = @ + 1])

\* the application calls downloader.startDownload()
StartDownload(c) ==
  /\ Idle(c)
  /\ LET r == startDownload(World, c) IN
     /\ ~r.threw
     /\ Becomes(r)

\* the application calls downloader.pauseDownload()
PauseDownload(c) ==
  /\ Idle(c)
  /\ used.pause[c] < MaxPause
  /\ pauseDownload(World, c) # World
  /\ Becomes([pauseDownload(World, c) EXCEPT !.used.pause[c] = @ + 1])

\* the application calls downloader.resumeDownload()
ResumeDownload(c) ==
  /\ Idle(c)
  /\ LET r == resumeDownload(World, c) IN
     /\ ~r.threw
     /\ r # World
     /\ Becomes(r)

\* the file whose chunks the receiver is taking in, "" when there is none
InFlight(r) ==
  IF r.status \in {Downloading, Paused} /\ r.currentFileIndex < Len(r.filesInfo)
  THEN r.filesInfo[r.currentFileIndex + 1].fileName ELSE ""

\* how many times fileName was handed to storeCompletedFile with success
StoredCount(r, fileName) ==
  Cardinality({i \in 1..Len(r.completedFiles) : r.completedFiles[i].fileName = fileName})
  + Cardinality({i \in 1..Len(r.storing) : r.storing[i].fileName = fileName})

\* FilePizzaDownloader.downloadFile: Some(data) when DownloadHelper.downloadFile
\* is called with the data of the first completed file of that name, None
\* when it throws 'File not found'
downloadFile(r, fileName) ==
  LET hits == {i \in 1..Len(r.completedFiles) : r.completedFiles[i].fileName = fileName}
  IN  IF hits = {} THEN None
      ELSE Some(r.completedFiles[CHOOSE i \in hits : \A j \in hits : i <= j].data)

\* the application calls downloader.cancelDownload(), once; an exception
\* leaves the receiver as the loop over the sinks left it
CancelDownload(c) ==
  /\ Idle(c)
  /\ hist[c].cancel = None
  /\ LET r == recv[c]
         done == cancelDownload(World, c)
     IN Becomes([done EXCEPT
          !.threw = FALSE,
          !.hist[c].cancel = Some([status |-> r.status,
                                   inFlight |-> InFlight(r),
                                   stored |-> StoredCount(r, InFlight(r)),
                                   threw |-> done.threw])])

\* the transport of an open connection drops
Drop(c) ==
  /\ link[c].phase = "up"
  /\ link' = [link EXCEPT ![c].phase = "down",
                          ![c].sCloseEv = TRUE, ![c].rCloseEv = TRUE]
  /\ toS' = [toS EXCEPT ![c] = <<>>]
  /\ toR' = [toR EXCEPT ![c] = <<>>]
  /\ UNCHANGED <<files, password, connections, ctx, loops, recv, used, hist, life>>

\* the uploader's connection emits 'close'
UploaderClose(c) ==
  /\ link[c].sCloseEv
  /\ LET closed == [World EXCEPT !.link[c].sOpen = FALSE, !.link[c].sCloseEv = FALSE]
     IN IF link[c].listening
        THEN Becomes(uploaderHandleClose(closed, c))
        ELSE Becomes(closed)

\* the downloader's connection emits 'close'
DownloaderClose(c) ==
  /\ link[c].rCloseEv
  /\ Idle(c)
  /\ Becomes(onClose(World, c))

\* the uploader's connection emits 'error'
UploaderError(c) ==
  /\ link[c].sOpen
  /\ link[c].phase = "up"
  /\ link[c].listening
  /\ Becomes(uploaderHandleError(World, c))

\* the downloader's connection emits 'error'
DownloaderError(c) ==
  /\ link[c].rOpen
  /\ link[c].phase = "up"
  /\ recv[c].status # Error
  /\ Idle(c)
  /\ Becomes(onError(World, c))

\* the connection that carries a transfer
Single == {1}

\* the protocol on connection c, with a transport that stays up
Transfer(c) ==
  \/ Connect(c)
  \/ UploaderConnection(c)
  \/ Open(c)
  \/ UploaderData(c)
  \/ DownloaderData(c)
  \/ StoreCompleted(c)
  \/ SubmitPassword(c)
  \/ StartDownload(c)
  \/ PauseDownload(c)
  \/ ResumeDownload(c)

\* cancelDownload and the transport's close and error events
Faults(c) ==
  \/ CancelDownload(c)
  \/ Drop(c)
  \/ UploaderClose(c)
  \/ DownloaderClose(c)
  \/ UploaderError(c)
  \/ DownloaderError(c)

Next ==
  \/ SetFiles
  \/ Timer
  \/ \E c \in Single : Transfer(c)

Spec == Init /\ [][Next]_vars

\* ---------------------------------------------------------------- reconnect
\* the application offers its files once
Offer ==
  /\ used.setFiles = 0
  /\ SetFiles

\* the application calls downloader.connect again: the downloader behind
\* connection c goes on behind connection d, with the same peer identity
Reconnect(c, d) ==
  /\ PeerOf(c) = PeerOf(d)
  /\ c # d
  /\ recv[c].connection
  /\ link[c].phase \in {"up", "down"}
  /\ link[d].phase = "idle"
  /\ Idle(c)
  /\ Becomes(reconnectToPeer(World, c, d))

\* the connections of the downloader that reconnects
Twice == {1, 3}

NextReconnect ==
  \/ Offer
  \/ Timer
  \/ Connect(1)
  \/ \E c \in Twice :
       \/ \E d \in Twice : Reconnect(c, d)
       \/ UploaderConnection(c)
       \/ Open(c)
       \/ UploaderData(c)
       \/ DownloaderData(c)
       \/ StoreCompleted(c)
       \/ StartDownload(c)
       \/ UploaderClose(c)

\* a download in which the receiver may connect a second time
SpecReconnect == Init /\ [][NextReconnect]_vars

\* ---------------------------------------------------------------- two peers
\* receiver A, which may pause, resume, cancel and lose its transport, and
\* receiver B, which downloads without interruption
ReceiverA == 1
ReceiverB == 2

\* the application offers one file of more than one chunk
OfferOne ==
  /\ used.setFiles = 0
  /\ Becomes([setFiles(World, <<File("a", BigSize)>>) EXCEPT !.used.setFiles = @ + 1])

NextTwo ==
  \/ OfferOne
  \/ Timer
  \/ Transfer(ReceiverA)
  \/ Drop(ReceiverA)
  \/ UploaderClose(ReceiverA)
  \/ UploaderError(ReceiverA)
  \/ Connect(ReceiverB)
  \/ UploaderConnection(ReceiverB)
  \/ Open(ReceiverB)
  \/ UploaderData(ReceiverB)
  \/ DownloaderData(ReceiverB)
  \/ StoreCompleted(ReceiverB)
  \/ StartDownload(ReceiverB)

\* timers fire and what is in flight on B's open connection is delivered
FairTwo ==
  /\ WF_vars(Timer)
  /\ WF_vars(UploaderData(ReceiverB))
  /\ WF_vars(DownloaderData(ReceiverB))
  /\ WF_vars(StoreCompleted(ReceiverB))

\* two receivers with distinct peer identities at one sender
SpecTwo == Init /\ [][NextTwo]_vars /\ FairTwo

\* ---------------------------------------------------------------- plain
\* a download without pause, cancel or a second setFiles, on a transport
\* that stays open
NextPlain ==
  \/ Offer
  \/ Timer
  \/ \E c \in Single :
       \/ Connect(c)
       \/ UploaderConnection(c)
       \/ Open(c)
       \/ UploaderData(c)
       \/ DownloaderData(c)
       \/ StoreCompleted(c)
       \/ StartDownload(c)

\* timers fire, delivered messages are handled, microtasks run
FairPlain ==
  /\ WF_vars(Timer)
  /\ \A c \in Single :
       /\ WF_vars(UploaderData(c))
       /\ WF_vars(DownloaderData(c))
       /\ WF_vars(StoreCompleted(c))

SpecPlain == Init /\ [][NextPlain]_vars /\ FairPlain

\* ---------------------------------------------------------------- cancel
NextCancel ==
  \/ Offer
  \/ Timer
  \/ \E c \in Single :
       \/ Transfer(c)
       \/ CancelDownload(c)
       \/ UploaderClose(c)

\* a transfer that the receiver may cancel at any moment
SpecCancel == Init /\ [][NextCancel]_vars

\* ---------------------------------------------------------------- any peer
\* what a peer that is not a FilePizzaDownloader may send
RawMessages ==
  { MsgRequestInfo, MsgUsePassword("secret"), MsgUsePassword("wrong"),
    MsgStart("a", 0), MsgStart("b", 0), MsgResume("a", 1), MsgPause, MsgDone }

\* such a peer connects
RawConnect(c) ==
  /\ link[c].phase = "idle"
  /\ link' = [link EXCEPT ![c].phase = "offered"]
  /\ UNCHANGED <<files, password, connections, ctx, loops, toS, toR, recv, used, hist, life>>

\* its data channel opens
RawOpen(c) ==
  /\ link[c].phase = "accepted"
  /\ link' = [link EXCEPT ![c].phase = "up", ![c].sOpen = TRUE, ![c].rOpen = TRUE]
  /\ UNCHANGED <<files, password, connections, ctx, loops, toS, toR, recv, used, hist, life>>

\* it sends a message of its choice
RawSend(c) ==
  /\ link[c].phase = "up"
  /\ used.raw < MaxRaw
  /\ \E m \in RawMessages : toS' = [toS EXCEPT ![c] = Append(@, m)]
  /\ used' = [used EXCEPT !.raw = @ + 1]
  /\ UNCHANGED <<files, password, connections, ctx, loops, toR, link, recv, hist, life>>

\* it closes the connection
RawClose(c) ==
  /\ link[c].phase = "up"
  /\ link' = [link EXCEPT ![c].phase = "down", ![c].rOpen = FALSE,
                          ![c].sCloseEv = link[c].sOpen]
  /\ toS' = [toS EXCEPT ![c] = <<>>]
  /\ toR' = [toR EXCEPT ![c] = <<>>]
  /\ UNCHANGED <<files, password, connections, ctx, loops, recv, used, hist, life>>

NextRaw ==
  \/ SetFiles
  \/ Timer
  \/ \E c \in Single :
       \/ RawConnect(c)
       \/ UploaderConnection(c)
       \/ RawOpen(c)
       \/ RawSend(c)
       \/ RawClose(c)
       \/ UploaderData(c)
       \/ UploaderClose(c)

\* the sender facing a peer that may send anything
SpecRaw == Init /\ [][NextRaw]_vars

\* ---------------------------------------------------------------- engine
\* the offsets a peer may ask for, and the names (one is never on offer)
Offsets == (0 - MaxOffsetSkew)..(BigSize + MaxOffsetSkew)
AskedNames == FileNames \cup {"zz"}
StartMessages ==
  {MsgStart(n, o) : n \in AskedNames, o \in Offsets}
    \cup {MsgResume(n, o) : n \in AskedNames, o \in Offsets}

\* a peer sends one Start or Resume of its choice and nothing else
EngineStart(c) ==
  /\ link[c].phase = "up"
  /\ hist[c].start = None
  /\ \E m \in StartMessages :
       /\ toS' = [toS EXCEPT ![c] = Append(@, m)]
       /\ hist' = [hist EXCEPT ![c].start = Some(m)]
  /\ UNCHANGED <<files, password, connections, ctx, loops, toR, link, recv, used, life>>

NextEngine ==
  \/ Offer
  \/ Timer
  \/ \E c \in Single :
       \/ RawConnect(c)
       \/ UploaderConnection(c)
       \/ RawOpen(c)
       \/ EngineStart(c)
       \/ UploaderData(c)

\* one uninterrupted run of the chunk engine, for a request of any kind
SpecEngine == Init /\ [][NextEngine]_vars

\* ---------------------------------------------------------------- faults
\* the negotiation of a connection the uploader accepted fails before its
\* data channel opens: the connection emits 'error'; it was never open, so
\* no 'close' follows
NegotiationFails(c) ==
  /\ link[c].phase = "accepted"
  /\ link[c].listening
  /\ Becomes(uploaderHandleError([World EXCEPT !.link[c].phase = "down"], c))

NextFaults ==
  \/ Offer
  \/ Timer
  \/ \E c \in Single :
       \/ Transfer(c)
       \/ Faults(c)
       \/ NegotiationFails(c)

\* a session whose transport may close or fail at any moment
SpecFaults == Init /\ [][NextFaults]_vars

\* ---------------------------------------------------------------- same peer
\* one peer that opens two connections to the uploader (connections 1 and
\* 3 carry the same conn.peer) and sends what it likes on each
NextSamePeer ==
  \/ Offer
  \/ Timer
  \/ \E c \in Twice :
       \/ RawConnect(c)
       \/ UploaderConnection(c)
       \/ RawOpen(c)
       \/ RawSend(c)
       \/ RawClose(c)
       \/ UploaderData(c)
       \/ UploaderClose(c)

SpecSamePeer == Init /\ [][NextSamePeer]_vars

\* ---------------------------------------------------------------- report
\* a peer connects with metadata {type: 'report'}
ReportConnect(c) ==
  /\ link[c].phase = "idle"
  /\ link' = [link EXCEPT ![c].phase = "offered", ![c].metadata = "report"]
  /\ UNCHANGED <<files, password, connections, ctx, loops, toS, toR, recv, used, hist, life>>

NextReport ==
  \/ SetFiles
  \/ Timer
  \/ \E c \in Single :
       \/ RawConnect(c)
       \/ ReportConnect(c)
       \/ UploaderConnection(c)
       \/ RawOpen(c)
       \/ RawSend(c)
       \/ RawClose(c)
       \/ UploaderData(c)
       \/ UploaderClose(c)

\* the sender facing a peer that connects for a download or for a report
SpecReport == Init /\ [][NextReport]_vars

\* ---------------------------------------------------------------- moderated
\* the far end of connection c sends a Report message, once
PeerReports(c) ==
  /\ link[c].phase = "up"
  /\ ~recv[c].reported
  /\ \A i \in 1..Len(toR[c]) : toR[c][i].type # "Report"
  /\ toR' = [toR EXCEPT ![c] = Append(@, MsgReport)]
  /\ UNCHANGED <<files, password, connections, ctx, loops, toS, link, recv, used, hist, life>>

NextModerated ==
  \/ Offer
  \/ Timer
  \/ \E c \in Single :
       \/ Transfer(c)
       \/ PeerReports(c)

\* a session in which the channel may be reported at any moment
SpecModerated == Init /\ [][NextModerated]_vars

\* ---------------------------------------------------------------- malformed
\* messages with an unknown tag or without a required field (a missing
\* field reads as undefined)
MalformedMessages ==
  { [type |-> "Bogus"], MsgStart(Undefined, 0), MsgResume(Undefined, 0),
    MsgUsePassword(Undefined) }

\* the peer sends such a message
MalformedSend(c) ==
  /\ link[c].phase = "up"
  /\ used.raw < MaxRaw
  /\ \E m \in MalformedMessages : toS' = [toS EXCEPT ![c] = Append(@, m)]
  /\ used' = [used EXCEPT !.raw = @ + 1]
  /\ UNCHANGED <<files, password, connections, ctx, loops, toR, link, recv, hist, life>>

NextMalformed ==
  \/ Offer
  \/ Timer
  \/ \E c \in Single :
       \/ RawConnect(c)
       \/ UploaderConnection(c)
       \/ RawOpen(c)
       \/ RawSend(c)
       \/ MalformedSend(c)
       \/ UploaderData(c)

\* the sender facing a peer that also sends malformed messages
SpecMalformed == Init /\ [][NextMalformed]_vars

\* ---------------------------------------------------------------- lifecycle
\* initialize() of the uploader or the downloader, call i, up to its first
\* await: it returns at once if the instance has a Peer, else it awaits
\* getIceServers
initialize(w, who, i) ==
  IF w.life[who].peer # None
  THEN [w EXCEPT !.life[who].calls[i].pc = "done"]
  ELSE [w EXCEPT !.life[who].calls[i].pc = "ice"]

\* initialize() after getIceServers: this.peer = new Peer(...); the new Peer
\* has no id yet, so the call awaits its 'open'
initializeAfterIce(w, who, i) ==
  LET n == w.life[who].peers + 1 IN
  [w EXCEPT !.life[who].peer = Some(n),
            !.life[who].peers = n,
            !.life[who].calls[i] = [pc |-> "open", peer |-> n]]

\* createChannel once the server has answered, then startChannelRenewal
createChannel(w, i, secret) ==
  LET n == w.life.uploader.channels + 1
      t == w.life.uploader.started + 1
      made == [w EXCEPT !.life.uploader.channels = n,
                        !.life.uploader.channelInfo = Some([slug |-> n, secret |-> secret]),
                        !.life.uploader.calls[i].pc = "done"]
  IN IF secret
     THEN [made EXCEPT !.life.uploader.started = t,
                       !.life.uploader.renewalTimer = Some(t),
                       !.life.uploader.timers = @ \cup {t}]
     ELSE made

\* initialize() after the 'open' of the Peer it made.  The downloader's is
\* over; the uploader's goes on with this.peer, whichever Peer that is now:
\* it throws if there is none, attaches handleConnection, and creates the
\* channel if that Peer has an id
initializeAfterOpen(w, who, i) ==
  IF who = "downloader" THEN [w EXCEPT !.life[who].calls[i].pc = "done"]
  ELSE IF w.life[who].peer = None THEN [w EXCEPT !.life[who].calls[i].pc = "failed"]
  ELSE
    LET n == w.life[who].peer[1]
        heard == [w EXCEPT !.life[who].listening = @ \cup {n}]
    IN IF n \in w.life[who].opened
       THEN [heard EXCEPT !.life[who].calls[i].pc = "channel"]
       ELSE [heard EXCEPT !.life[who].calls[i].pc = "done"]

\* the application calls initialize() (or connect(), which calls it)
Initialize(who) ==
  /\ life[who].stop = "none"
  /\ \E i \in Calls :
       /\ life[who].calls[i].pc = "none"
       /\ \A j \in Calls : j < i => life[who].calls[j].pc # "none"
       /\ Becomes(initialize(World, who, i))

\* getIceServers resolves
IceServers(who) ==
  \E i \in Calls :
    /\ life[who].calls[i].pc = "ice"
    /\ Becomes(initializeAfterIce(World, who, i))

\* a Peer of the instance emits 'open'
PeerOpen(who) ==
  \E n \in 1..life[who].peers :
    /\ n \notin life[who].opened
    /\ n \notin life[who].destroyed
    /\ life' = [life EXCEPT ![who].opened = @ \cup {n}]
    /\ UNCHANGED <<files, password, connections, ctx, loops, toS, toR, link, recv, used, hist>>

\* a call that awaited the 'open' of its Peer resumes
Opened(who) ==
  \E i \in Calls :
    /\ life[who].calls[i].pc = "open"
    /\ life[who].calls[i].peer \in life[who].opened
    /\ Becomes(initializeAfterOpen(World, who, i))

\* the server answers /api/create, with or without a secret
ChannelCreated ==
  \E i \in Calls, secret \in BOOLEAN :
    /\ life.uploader.calls[i].pc = "channel"
    /\ Becomes(createChannel(World, i, secret))

NextInitialize ==
  \/ \E who \in Instances :
       \/ Initialize(who)
       \/ IceServers(who)
       \/ PeerOpen(who)
       \/ Opened(who)
  \/ ChannelCreated

\* the initialize() calls of one uploader and one downloader
SpecInitialize == Init /\ [][NextInitialize]_vars

\* ---------------------------------------------------------------- stop
\* FilePizzaUploader.getShareableLinks: null without a channel
getShareableLinks(w) ==
  IF w.life.uploader.channelInfo = None THEN None
  ELSE Some(w.life.uploader.channelInfo[1].slug)

\* stop(): the loop that closes every stored connection that is open
RECURSIVE closeConnections(_, _)
closeConnections(w, peers) ==
  IF peers = {} THEN w
  ELSE LET p == CHOOSE x \in peers : TRUE
           reg == w.connections[p]
           next == IF reg # None /\ w.link[reg[1]].sOpen
                   THEN connClose(w, reg[1]) ELSE w
       IN closeConnections(next, peers \ {p})

\* Peer.destroy: every connection of the Peer is closed, open or not, and
\* no other will arrive on it
peerDestroy(w) ==
  LET gone(c) == w.link[c].phase # "idle" IN
  [w EXCEPT !.link = [c \in Conns |->
                        IF gone(c)
                        THEN [w.link[c] EXCEPT !.phase = "down",
                                               !.sOpen = FALSE,
                                               !.sCloseEv = FALSE,
                                               !.rCloseEv = w.link[c].rOpen]
                        ELSE w.link[c]],
            !.toS = [c \in Conns |-> IF gone(c) THEN <<>> ELSE w.toS[c]],
            !.toR = [c \in Conns |-> IF gone(c) THEN <<>> ELSE w.toR[c]],
            !.life.uploader.destroyed = @ \cup {w.life.uploader.peer[1]},
            !.life.uploader.peer = None]

\* stop() from the end of destroyChannel: close and clear the connections,
\* destroy the Peer, forget the channel
stopAfterDestroy(w) ==
  LET closed == closeConnections(w, PeerIds)
      cleared == [closed EXCEPT !.connections = [p \in PeerIds |-> None]]
      destroyed == IF cleared.life.uploader.peer # None
                   THEN peerDestroy(cleared) ELSE cleared
  IN [destroyed EXCEPT !.life.uploader.channelInfo = None,
                       !.life.uploader.stop = "resolved"]

\* FilePizzaUploader.stop up to its await: it clears the renewal timer and
\* awaits destroyChannel if there is a channel
stop(w) ==
  LET timer == w.life.uploader.renewalTimer
      quiet == IF timer # None
               THEN [w EXCEPT !.life.uploader.timers = @ \ {timer[1]},
                              !.life.uploader.renewalTimer = None]
               ELSE w
  IN IF quiet.life.uploader.channelInfo # None
     THEN [quiet EXCEPT !.life.uploader.stop = "destroying"]
     ELSE stopAfterDestroy(quiet)

\* the application calls stop()
Stop ==
  /\ life.uploader.stop = "none"
  /\ Becomes(stop(World))

\* the server answers /api/destroy
ChannelDestroyed ==
  /\ life.uploader.stop = "destroying"
  /\ Becomes(stopAfterDestroy(World))

\* a connection arrives on a Peer of the uploader that listens for them
Arrives(c) ==
  /\ \E n \in life.uploader.listening :
       n \in life.uploader.opened /\ n \notin life.uploader.destroyed
  /\ UploaderConnection(c)

NextStop ==
  \/ OfferOne
  \/ Timer
  \/ Initialize("uploader")
  \/ IceServers("uploader")
  \/ PeerOpen("uploader")
  \/ Opened("uploader")
  \/ ChannelCreated
  \/ Stop
  \/ ChannelDestroyed
  \/ \E c \in Single :
       \/ RawConnect(c)
       \/ Arrives(c)
       \/ RawOpen(c)
       \/ RawSend(c)
       \/ RawClose(c)
       \/ UploaderData(c)
       \/ UploaderClose(c)

\* an uploader that is initialized, serves a peer and is stopped
SpecStop == Init /\ [][NextStop]_vars

\* ---------------------------------------------------------------- claims
\* the sender has a password configured (handleRequestInfo's test)
PasswordConfigured == password # Undefined /\ password # ""

\* the messages a step put on connection c for the receiver
Sent(c) ==
  IF Len(toR'[c]) > Len(toR[c])
  THEN SubSeq(toR'[c], Len(toR[c]) + 1, Len(toR'[c]))
  ELSE <<>>

\* the context the sender's map holds for the peer of connection c
Registered(c) == connections[PeerOf(c)] # None
ContextOf(c) == ctx[connections[PeerOf(c)][1]][1]

\* the bytes of a file of that size, in order
Positions(size) == [i \in 1..size |-> i - 1]
IsPrefix(s, t) == Len(s) <= Len(t) /\ \A i \in 1..Len(s) : s[i] = t[i]

\* the size the receiver was told for a file name (0 if it was not told)
SizeOf(r, fileName) ==
  LET info == findInfo(r.filesInfo, fileName) IN
  IF info = None THEN 0 ELSE info[1].size

\* one offer for the whole session: the sender's file list was set before
\* the connections were made and was not replaced since
OneOffer ==
  /\ used.setFiles <= 1
  /\ \A c \in Conns : ctx[c] # None => ctx[c][1].filesInfo = getFileInfo(files)

\* C1: with one offer for the whole session, every file's sink holds the
\* file's bytes once and in order: a sealed sink holds exactly the S bytes
\* of the file, an open one a prefix of them, whatever the interleaving of
\* pauseDownload and resumeDownload with the chunks in flight
SinkHoldsFileOnce ==
  OneOffer =>
  \A c \in Conns : \A i \in 1..Len(recv[c].fileStreams) :
    LET st == recv[c].fileStreams[i]
        whole == Positions(SizeOf(recv[c], st.name))
    IN IF st.closed THEN st.chunks = whole ELSE IsPrefix(st.chunks, whole)

\* C2: with a password configured, every Info is sent on a connection from
\* which a matching UsePassword was received before
InfoOnlyAfterPassword ==
  [][PasswordConfigured =>
       \A c \in Conns : \A i \in 1..Len(Sent(c)) :
         Sent(c)[i].type = "Info" => hist'[c].matched]_vars

\* C3: with a password configured, every Chunk is sent on a connection from
\* which a matching UsePassword was received before
ChunkOnlyAfterPassword ==
  [][PasswordConfigured =>
       \A c \in Conns : \A i \in 1..Len(Sent(c)) :
         Sent(c)[i].type = "Chunk" => hist'[c].matched]_vars

\* the sender handles a UsePassword that does not match, on a connection
\* that has a context
WrongPasswordStep(c) ==
  /\ UploaderData(c)
  /\ Registered(c)
  /\ Head(toS[c]).type = "UsePassword"
  /\ Head(toS[c]).password # password

\* C4: on a password-protected sender every UsePassword that does not match
\* leaves the connection in InvalidPassword, never Ready, and is answered
\* with exactly one PasswordRequired that carries an error message, and
\* with nothing else
WrongPasswordRejected ==
  [][\A c \in Conns :
       PasswordConfigured /\ WrongPasswordStep(c) =>
         /\ ctx'[c][1].status \in {Authenticating, InvalidPassword}
         /\ toR'[c] = Append(toR[c], MsgPasswordRequired("Incorrect password"))]_vars

\* C4 witness: two wrong passwords in a row were answered and the
\* connection still waits for the password
WrongPasswordTwice ==
  \E c \in Conns :
    /\ PasswordConfigured
    /\ Registered(c)
    /\ ContextOf(c).status = InvalidPassword
    /\ Len(SelectSeq(toR[c], LAMBDA m : m = MsgPasswordRequired("Incorrect password"))) >= 2

\* the sender's overall progress of a context is bytesTransferred over its
\* totalBytes, which never changes: it grows as bytesTransferred grows
UploadProgressKept(c) ==
  (Registered(c) /\ connections'[PeerOf(c)] = connections[PeerOf(c)]) =>
    LET k == connections[PeerOf(c)][1] IN
    ctx'[k][1].bytesTransferred >= ctx[k][1].bytesTransferred

\* C5: overallProgress never decreases from one state to the next, on the
\* receiver and on every sender context
ProgressNeverDecreases ==
  [][\A c \in Conns :
       /\ RatioLeq(getProgress(recv[c]).overallProgress,
                   getProgress(recv'[c]).overallProgress)
       /\ UploadProgressKept(c)]_vars

\* the final chunk of every file of the offer was applied: each has a
\* sealed sink
AllFinal(r) ==
  \A i \in 1..Len(r.filesInfo) :
    LET j == StreamIndex(r.fileStreams, r.filesInfo[i].fileName) IN
    j # 0 /\ r.fileStreams[j].closed

\* C6: with one offer for the whole session, the receiver's overallProgress
\* is exactly 1 if and only if the final chunk of every file of the offer
\* has been applied
FullProgressIffAllFinal ==
  OneOffer =>
  \A c \in Conns :
    LET r == recv[c] IN
    (r.totalBytes > 0) =>
      ((r.totalBytesReceived = r.totalBytes) <=> AllFinal(r))

\* C7: with one offer for the whole session, on the receiver and on every
\* sender context the bytes transferred never exceed the total, and the
\* bytes of the current file stay between 0 and the file's size
CountersWithinTotals ==
  OneOffer =>
  \A c \in Conns :
    /\ recv[c].totalBytesReceived <= recv[c].totalBytes
    /\ recv[c].currentFileBytesReceived >= 0
    /\ recv[c].currentFileIndex < Len(recv[c].filesInfo) =>
         recv[c].currentFileBytesReceived
           <= recv[c].filesInfo[recv[c].currentFileIndex + 1].size
    /\ Registered(c) =>
         /\ ContextOf(c).bytesTransferred <= ContextOf(c).totalBytes
         /\ ContextOf(c).currentFileProgress.num >= 0
         /\ ContextOf(c).currentFileProgress.num <= ContextOf(c).currentFileProgress.den

\* C8: currentFileIndex never decreases on the receiver, and on every
\* sender context fileIndex never decreases and stays within 0..totalFiles
FileIndexNeverDecreases ==
  [][\A c \in Conns :
       /\ recv'[c].currentFileIndex >= recv[c].currentFileIndex
       /\ (ctx[c] # None /\ ctx'[c] # None) =>
            /\ ctx'[c][1].fileIndex >= ctx[c][1].fileIndex
            /\ ctx'[c][1].fileIndex \in 0..ctx'[c][1].totalFiles]_vars

\* the place of a file name in the offer the receiver holds (0 if none)
OfferIndex(r, fileName) ==
  LET hits == {i \in 1..Len(r.filesInfo) : r.filesInfo[i].fileName = fileName}
  IN  IF hits = {} THEN 0 ELSE CHOOSE i \in hits : TRUE

\* C9: with one offer for the whole session, the completed files are one
\* per file whose final chunk was applied, in offer order, and none twice
CompletedOncePerFile ==
  OneOffer =>
  \A c \in Conns :
    LET r == recv[c]
        names == CompletedNames(r)
    IN
    /\ \A i, j \in 1..Len(names) :
         i < j => OfferIndex(r, names[i]) < OfferIndex(r, names[j])
    /\ r.storing = <<>> =>
         \A i \in 1..Len(r.fileStreams) :
           r.fileStreams[i].closed =>
             \E j \in 1..Len(names) : names[j] = r.fileStreams[i].name

\* C10: with one offer for the whole session, what the 'complete' event
\* surfaced holds a CompletedFile for every file of the offer, the last one
\* included
CompleteSurfacesAllFiles ==
  OneOffer =>
  \A c \in Conns :
    recv[c].completeArg # None =>
      \A i \in 1..Len(recv[c].filesInfo) :
        \E j \in 1..Len(recv[c].completeArg[1]) :
          recv[c].completeArg[1][j] = recv[c].filesInfo[i].fileName


\* the step in which cancelDownload was called on connection c
CancelStep(c) == hist[c].cancel = None /\ hist'[c].cancel # None

\* every sink of the receiver is closed (a cleared map has none left open)
SinksClosed(r) == \A i \in 1..Len(r.fileStreams) : r.fileStreams[i].closed

\* C11: from whatever state cancelDownload is called, when it is over every
\* sink is closed, the transport is closed and the status is Closed
CancelAlwaysCloses ==
  [][\A c \in Single :
       CancelStep(c) =>
         /\ SinksClosed(recv'[c])
         /\ ~link'[c].rOpen
         /\ recv'[c].status = Closed]_vars

\* C12: a file that was in flight when cancelDownload was called never
\* becomes a CompletedFile afterwards, and downloadFile never hands data of
\* it to the persistence collaborator
NoFileFromCancelled ==
  \A c \in Single :
    LET h == hist[c].cancel IN
    (h # None /\ h[1].inFlight # "") =>
      /\ StoredCount(recv[c], h[1].inFlight) = h[1].stored
      /\ h[1].stored = 0 => downloadFile(recv[c], h[1].inFlight) = None

\* C13: startDownload goes through only when the receiver is Ready and has
\* received an Info on its current connection; otherwise it throws, and
\* then it has sent nothing and changed nothing
StartOnlyWhenReady ==
  \A c \in Conns :
    LET r == startDownload(World, c) IN
    /\ ~r.threw => recv[c].status = Ready /\ hist[c].info
    /\ r.threw => r = [World EXCEPT !.threw = TRUE]

\* a step made for connection c: one that consumes or produces something on
\* c, changes its transport, its receiver or its context, or runs a chunk
\* continuation of c
StepOf(c) ==
  \/ toS'[c] # toS[c]
  \/ toR'[c] # toR[c]
  \/ link'[c] # link[c]
  \/ recv'[c] # recv[c]
  \/ ctx'[c] # ctx[c]
  \/ /\ loops # <<>>
     /\ Head(loops).conn = c
     /\ loops' # loops
     /\ \/ loops' = Tail(loops)
        \/ /\ Len(loops') = Len(loops)
           /\ SubSeq(loops', 1, Len(loops) - 1) = Tail(loops)

\* C14: whatever happens for receiver A (a message, a close or error event,
\* a chunk continuation) leaves the context of receiver B as it was, and B's
\* download, once started, runs to Done whatever A does
PeersIndependent ==
  /\ [][(StepOf(ReceiverA) /\ files' = files) =>
          /\ ctx'[ReceiverB] = ctx[ReceiverB]
          /\ connections'[PeerOf(ReceiverB)] = connections[PeerOf(ReceiverB)]
          /\ toR'[ReceiverB] = toR[ReceiverB]]_vars
  /\ (recv[ReceiverB].status = Downloading) ~> (recv[ReceiverB].status = Done)

\* B has received its whole offer while A is paused in mid-transfer
BDoneWhileAPaused ==
  /\ ctx[ReceiverA] # None
  /\ ctx[ReceiverA][1].status = Paused
  /\ recv[ReceiverA].status = Paused
  /\ recv[ReceiverA].totalBytesReceived < recv[ReceiverA].totalBytes
  /\ recv[ReceiverB].status = Done
  /\ ctx[ReceiverB] # None
  /\ ctx[ReceiverB][1].status = Done
  /\ ctx[ReceiverB][1].bytesTransferred = ctx[ReceiverB][1].totalBytes

\* the receiver holds, for each file of its list in order, a sink with
\* exactly the bytes of that file
EveryFileWhole(r) ==
  /\ Len(r.fileStreams) = Len(r.filesInfo)
  /\ \A i \in 1..Len(r.filesInfo) :
       /\ r.fileStreams[i].name = r.filesInfo[i].fileName
       /\ r.fileStreams[i].chunks = Positions(r.filesInfo[i].size)
       /\ r.fileStreams[i].closed

PauseOnlyWhileDownloading ==
  \A c \in Single :
    LET r == pauseDownload(World, c) IN
    IF recv[c].status = Downloading
    THEN r = [World EXCEPT !.toS[c] = Append(@, MsgPause),
                           !.recv[c].status = Paused]
    ELSE r = World

\* the receiver has paused a running download and its Pause is on the way
PauseOnItsWay ==
  /\ recv[1].status = Paused
  /\ used.pause[1] > 0
  /\ toS[1] # <<>>
  /\ toS[1][Len(toS[1])] = MsgPause
  /\ recv[1].totalBytesReceived > 0

\* the bytes appended so far to the sink of the file at currentFileIndex
SinkBytes(r) ==
  LET i == StreamIndex(r.fileStreams, r.filesInfo[r.currentFileIndex + 1].fileName)
  IN  IF i = 0 THEN 0 ELSE Len(r.fileStreams[i].chunks)

\* C17: resumeDownload while Paused sends one Resume naming the file at
\* currentFileIndex, with the number of bytes appended to its sink so far as
\* offset, and sets Downloading; in any other state it does nothing (shown
\* for a session with one offer)
ResumeFromSinkLength ==
  \A c \in Single :
    LET r == resumeDownload(World, c) IN
    IF ~OneOffer THEN TRUE
    ELSE IF recv[c].status = Paused
    THEN /\ recv[c].currentFileIndex < Len(recv[c].filesInfo)
         /\ r = [World EXCEPT
                   !.toS[c] = Append(@, MsgResume(
                       recv[c].filesInfo[recv[c].currentFileIndex + 1].fileName,
                       SinkBytes(recv[c]))),
                   !.recv[c].status = Downloading]
    ELSE r = World

\* C18: when the receiver is Done, the sender's context and the receiver
\* agree: bytesTransferred = totalBytesReceived = totalBytes (shown for a
\* session with one offer and no password)
BothEndsAgreeAtDone ==
  \A c \in Single :
    (OneOffer /\ ~PasswordConfigured /\ recv[c].status = Done /\ ctx[c] # None) =>
      /\ ctx[c][1].bytesTransferred = recv[c].totalBytesReceived
      /\ recv[c].totalBytesReceived = recv[c].totalBytes
      /\ ctx[c][1].totalBytes = recv[c].totalBytes

\* the changes of status the Download State Machine has
DownloadStateMachine ==
  { <<Pending, Ready>>, <<Ready, Authenticating>>, <<Authenticating, Ready>>,
    <<Ready, Downloading>>, <<Downloading, Paused>>, <<Paused, Downloading>>,
    <<Downloading, Done>> }

\* C19: the receiver's status changes only along the Download State
\* Machine, or to Closed or Error
ReceiverFollowsStateMachine ==
  [][\A c \in Single :
       recv'[c].status # recv[c].status =>
         \/ recv'[c].status \in {Closed, Error}
         \/ <<recv[c].status, recv'[c].status>> \in DownloadStateMachine]_vars

\* C20: in the sender's connection machine Paused is entered from
\* Uploading only: a Pause handled in Pending, Authenticating,
\* InvalidPassword, Ready or Done does not make the context Paused
PausedOnlyFromUploading ==
  [][\A c \in Single :
       (/\ ctx[c] # None
        /\ ctx'[c] # None
        /\ ctx'[c][1].status = Paused
        /\ ctx[c][1].status # Paused) => ctx[c][1].status = Uploading]_vars

\* the step handles a Start or a Resume that arrived on connection c
StartOrResumeStep(c) ==
  /\ toS[c] # <<>>
  /\ Head(toS[c]).type \in {"Start", "Resume"}
  /\ toS'[c] # toS[c]

\* a Chunk was put on connection c in this step
ChunkSent(c) == \E i \in 1..Len(Sent(c)) : Sent(c)[i].type = "Chunk"

\* C21: a Chunk goes out on a connection only in the step that handles a
\* Start or Resume, or from a continuation that found the connection open
\* and its context Uploading; after a Pause or a close nothing more is sent
NoChunkUnlessUploading ==
  [][\A c \in Single :
       ChunkSent(c) =>
         \/ StartOrResumeStep(c)
         \/ /\ ctx[c] # None
            /\ ctx[c][1].status = Uploading
            /\ link[c].sOpen]_vars

\* a continuation found its context Paused and stopped in mid-file
LoopStoppedByPause ==
  /\ ctx[1] # None
  /\ ctx[1][1].status = Paused
  /\ loops = <<>>
  /\ toR[1] = <<>>
  /\ ctx[1][1].uploadingOffset # None
  /\ ctx[1][1].uploadingOffset[1] > 0
  /\ findFile(files, ctx[1][1].uploadingFileName) # None
  /\ ctx[1][1].uploadingOffset[1] < findFile(files, ctx[1][1].uploadingFileName)[1].size

\* the scheduled continuations of connection c that will send when they run
LiveLoops(c) ==
  {i \in 1..Len(loops) :
     /\ loops[i].conn = c
     /\ link[c].sOpen
     /\ ctx[loops[i].cx][1].status = Uploading}

\* C22: a connection never has two scheduled chunk continuations that will
\* both send (shown for a session with one offer and no password, where the
\* receiver sends one Start per file)
OneLiveLoop ==
  \A c \in Single :
    (OneOffer /\ ~PasswordConfigured) => Cardinality(LiveLoops(c)) <= 1

\* the request the peer of connection c made was for a file on offer, with
\* an offset inside it, and the sender has handled it
InRangeRequest(c) ==
  /\ hist[c].start # None
  /\ toS[c] = <<>>
  /\ ctx[c] # None
  /\ ctx[c][1].uploadingFileName = hist[c].start[1].fileName
  /\ findFile(files, hist[c].start[1].fileName) # None
  /\ hist[c].start[1].offset >= 0
  /\ hist[c].start[1].offset <= findFile(files, hist[c].start[1].fileName)[1].size

\* C23: the chunks of an uninterrupted run, for a start offset o in [0, S]:
\* the first is at o, each carries the bytes [offset, min(S, offset + c)),
\* at most c of them, the next starts where the one before ended, final is
\* set on the chunk that ends at S and only there, that chunk is the last,
\* and the run ends with it
EngineEmitsContiguousChunks ==
  \A c \in Single :
    InRangeRequest(c) =>
      LET file == findFile(files, hist[c].start[1].fileName)[1]
          out == toR[c]
          end(i) == out[i].offset + Len(out[i].bytes)
      IN
      /\ Len(out) >= 1
      /\ out[1].offset = hist[c].start[1].offset
      /\ \A i \in 1..Len(out) :
           /\ out[i].type = "Chunk"
           /\ out[i].fileName = file.name
           /\ Len(out[i].bytes) <= CHUNK_SIZE
           /\ end(i) = Min(file.size, out[i].offset + CHUNK_SIZE)
           /\ out[i].bytes = [j \in 1..Len(out[i].bytes) |-> out[i].offset + j - 1]
           /\ out[i].final <=> end(i) = file.size
           /\ out[i].final => i = Len(out)
           /\ i < Len(out) => out[i + 1].offset = end(i)
      /\ loops = <<>> <=> out[Len(out)].final

\* a run of two chunks has ended
EngineRanTwoChunks ==
  /\ InRangeRequest(1)
  /\ loops = <<>>
  /\ Len(toR[1]) = 2
  /\ toR[1][2].final

\* the last message a step put on connection c is a final Chunk
FinalChunkSent(c) ==
  /\ Sent(c) # <<>>
  /\ Sent(c)[Len(Sent(c))].type = "Chunk"
  /\ Sent(c)[Len(Sent(c))].final

\* C24: the step that emits a final chunk advances the context's fileIndex
\* by one and leaves it Ready when fileIndex < totalFiles afterwards, else
\* Done with fileIndex = totalFiles; it schedules no continuation and sends
\* no chunk of another file
FinalChunkAdvancesFile ==
  [][\A c \in Single :
       FinalChunkSent(c) =>
         /\ ctx[c] # None /\ ctx'[c] # None
         /\ ctx'[c][1].fileIndex = ctx[c][1].fileIndex + 1
         /\ IF ctx'[c][1].fileIndex < ctx'[c][1].totalFiles
            THEN ctx'[c][1].status = Ready
            ELSE /\ ctx'[c][1].status = Done
                 /\ ctx'[c][1].fileIndex = ctx'[c][1].totalFiles
         /\ Len(Sent(c)) = 1
         /\ \/ loops' = loops
            \/ loops # <<>> /\ loops' = Tail(loops)]_vars

\* the sender handles a Start or Resume for a file it does not offer
UnknownFileStep(c) ==
  /\ StartOrResumeStep(c)
  /\ link[c].sOpen
  /\ findFile(files, Head(toS[c]).fileName) = None

\* C25: a Start or Resume that names a file outside the current file set is
\* answered with exactly one Error, sends no Chunk, schedules nothing and
\* leaves every field of the context as it was
UnknownFileOnlyAnswersError ==
  [][\A c \in Single :
       UnknownFileStep(c) =>
         /\ Sent(c) = <<MsgError("File not found")>>
         /\ ctx' = ctx
         /\ connections' = connections
         /\ loops' = loops]_vars

\* a request for a file that is not offered has been answered
UnknownFileAnswered ==
  /\ hist[1].start # None
  /\ files # <<>>
  /\ findFile(files, hist[1].start[1].fileName) = None
  /\ toS[1] = <<>>
  /\ toR[1] = <<MsgError("File not found")>>

\* C26: from every state of a registered connection, Resume{fileName,
\* offset} leaves the sender exactly where Start{fileName, offset} does
\* (status, uploadingFileName, uploadingOffset, messages sent, continuation
\* scheduled), and for a file on offer the first Chunk then sent carries the
\* supplied offset, whatever offset was reached before
ResumeActsAsStart ==
  \A c \in Single :
    Registered(c) =>
      \A n \in AskedNames, o \in Offsets :
        LET k == connections[PeerOf(c)][1]
            viaResume == handleResume(World, c, k, MsgResume(n, o))
            viaStart == handleStart(World, c, k, MsgStart(n, o))
            first == Len(toR[c]) + 1
        IN
        /\ viaResume = viaStart
        /\ (findFile(files, n) # None /\ link[c].sOpen /\ link[c].phase = "up") =>
             /\ viaResume.ctx[k][1].uploadingFileName = n
             /\ Len(viaResume.toR[c]) = first
             /\ viaResume.toR[c][first].type = "Chunk"
             /\ viaResume.toR[c][first].fileName = n
             /\ viaResume.toR[c][first].offset = o

\* the sender has handled Start, Pause and Resume for the first file
ResumedAfterPause ==
  /\ OneOffer
  /\ ~PasswordConfigured
  /\ used.pause[1] >= 1
  /\ recv[1].status = Downloading
  /\ recv[1].currentFileIndex = 0
  /\ toS[1] = <<>>
  /\ ctx[1] # None
  /\ ctx[1][1].status = Uploading

\* C27: whatever offset a Start or Resume carries, every Chunk sent has an
\* offset inside [0, fileSize] and no chunk lowers bytesTransferred
ChunkOffsetsClamped ==
  [][\A c \in Single :
       /\ \A i \in 1..Len(Sent(c)) :
            Sent(c)[i].type = "Chunk" =>
              /\ findFile(files, Sent(c)[i].fileName) # None
              /\ Sent(c)[i].offset >= 0
              /\ Sent(c)[i].offset <= findFile(files, Sent(c)[i].fileName)[1].size
       /\ (ChunkSent(c) /\ ctx[c] # None /\ ctx'[c] # None) =>
            ctx'[c][1].bytesTransferred >= ctx[c][1].bytesTransferred]_vars

\* C28: after a close or an error of a connection the sender's map holds no
\* context for it: no stored context has status Closed or Error
NoClosedContextStored ==
  \A p \in PeerIds :
    connections[p] # None =>
      ctx[connections[p][1]][1].status \notin {Closed, Error}

\* the sender accepts connection c
AcceptStep(c) == ctx[c] = None /\ ctx'[c] # None

\* the sender handles a message that arrived on connection c
DataStep(c) ==
  /\ toS[c] # <<>>
  /\ toS'[c] # toS[c]
  /\ Len(toS'[c]) < Len(toS[c])
  /\ link'[c].rOpen = link[c].rOpen

\* the sender handles the close of connection c
CloseStep(c) == link[c].sCloseEv /\ ~link'[c].sCloseEv

\* C29: while connection d of a peer is open, the sender's map keeps d's
\* context when another connection c of the same peer is accepted, a
\* message on c leaves d's context as it was, and the close of c removes
\* neither d's context nor its entry in the map
ContextOwnedByItsConnection ==
  [][\A c \in Twice : \A d \in Twice \ {c} :
       (ctx[d] # None /\ link[d].sOpen /\ connections[PeerOf(d)] = Some(d)) =>
         /\ AcceptStep(c) => connections'[PeerOf(d)] = Some(d)
         /\ DataStep(c) => ctx'[d] = ctx[d]
         /\ CloseStep(c) => /\ ctx'[d] = ctx[d]
                            /\ connections'[PeerOf(d)] = Some(d)]_vars

\* C30: a connection whose metadata marks it as a report never has a
\* context, an entry in the map or listeners; once accepted it has caused
\* exactly one 'report' event; nothing is ever sent on it, whatever it
\* delivers and whatever the sender's files become
ReportChannelIsDiverted ==
  \A c \in Single :
    link[c].metadata = "report" =>
      /\ ctx[c] = None
      /\ connections[PeerOf(c)] = None
      /\ ~link[c].listening
      /\ toR[c] = <<>>
      /\ loops = <<>>
      /\ hist[c].reports = (IF link[c].phase \in {"idle", "offered"} THEN 0 ELSE 1)

\* a report connection is open and all it sent has been delivered
ReportChannelDelivered ==
  /\ link[1].metadata = "report"
  /\ link[1].phase = "up"
  /\ link[1].sOpen
  /\ used.raw = MaxRaw
  /\ toS[1] = <<>>
  /\ files # <<>>

\* C31: once the receiver has handled a Report its status is none of
\* Ready, Downloading, Paused, and stays so
ReportIsTerminal ==
  \A c \in Single :
    recv[c].reported => recv[c].status \notin {Ready, Downloading, Paused}

\* the receiver's connection emits 'close' (a close it did not make itself)
ReceiverCloseStep(c) ==
  /\ link[c].rCloseEv
  /\ ~link'[c].rCloseEv
  /\ hist'[c].cancel = hist[c].cancel

\* the receiver's connection emits 'error'
ReceiverErrorStep(c) ==
  /\ recv[c].status # Error
  /\ recv'[c].status = Error
  /\ toR'[c] = toR[c]
  /\ hist'[c].cancel = hist[c].cancel

\* C32: when the receiver's transport closes or errors, in any state, the
\* status becomes Closed (close) or Error (error), every sink of the
\* connection is closed, and no new connection is made
TransportEndReleasesSinks ==
  [][\A c \in Single :
       /\ ReceiverCloseStep(c) =>
            /\ recv'[c].status = Closed
            /\ SinksClosed(recv'[c])
            /\ link'[c].phase = "down"
       /\ ReceiverErrorStep(c) =>
            /\ SinksClosed(recv'[c])
            /\ link'[c].phase = link[c].phase]_vars

\* the sender handles a malformed message that arrived on connection c
MalformedStep(c) ==
  /\ DataStep(c)
  /\ link[c].sOpen
  /\ Head(toS[c]) \in MalformedMessages

\* C33: a message with an unknown tag, or a Start, Resume or UsePassword
\* without its fileName or password, leaves every context as it was, sends
\* no Chunk and at most one message, an Error
MalformedIsDropped ==
  [][\A c \in Single :
       MalformedStep(c) =>
         /\ ctx' = ctx
         /\ loops' = loops
         /\ Len(Sent(c)) <= 1
         /\ \A i \in 1..Len(Sent(c)) : Sent(c)[i].type = "Error"]_vars

\* C34: the receiver is not Ready before it has received an Info on its
\* connection: from the opening of the connection to the first response its
\* status is Pending
ReadyOnlyAfterInfo ==
  \A c \in Single :
    (recv[c].status = Ready /\ link[c].phase = "up") => hist[c].info

\* the application calls setFiles
SetFilesStep == used'.setFiles = used.setFiles + 1

\* the connection is registered, open and Ready
ReadyPeer(c) ==
  /\ connections[PeerOf(c)] = Some(c)
  /\ ctx[c][1].status = Ready
  /\ link[c].sOpen
  /\ link[c].phase = "up"

\* C35: a setFiles call sends one Info with the new file list, whatever the
\* list, to every connection that is Ready and nothing to any other
SetFilesAnnouncesToReady ==
  [][SetFilesStep =>
       \A c \in Conns :
         Sent(c) = IF ReadyPeer(c) THEN <<MsgInfo(getFileInfo(files'))>>
                   ELSE <<>>]_vars

\* a quotient that is the number n
IsNumber(r, n) == r.den # 0 /\ r.num = n * r.den

\* C36: no progress record carries 0/0; a record produced while the current
\* file has size 0 has currentFileProgress 1, and one produced while
\* totalBytes is 0 has overallProgress 0, on the sender (the record of the
\* 'progress' event of the next chunk) and on the receiver (getProgress);
\* shown for a session with one offer
ZeroDenominatorsDefined ==
  \A c \in Single : OneOffer =>
    /\ LET p == getProgress(recv[c])
           r == recv[c]
       IN /\ ~IsNaN(p.currentFileProgress)
          /\ ~IsNaN(p.overallProgress)
          /\ (/\ r.currentFileIndex < Len(r.filesInfo)
              /\ r.filesInfo[r.currentFileIndex + 1].size = 0)
               => IsNumber(p.currentFileProgress, 1)
          /\ r.totalBytes = 0 => IsNumber(p.overallProgress, 0)
    /\ (/\ toS[c] # <<>>
        /\ Head(toS[c]).type \in {"Start", "Resume"}
        /\ link[c].sOpen
        /\ connections[PeerOf(c)] = Some(c)
        /\ findFile(files, Head(toS[c]).fileName) # None) =>
         LET file == findFile(files, Head(toS[c]).fileName)[1]
             p == progressEvent(World, c, c, file, Head(toS[c]).offset)
         IN /\ ~IsNaN(p.currentFileProgress)
            /\ ~IsNaN(p.overallProgress)
            /\ file.size = 0 => IsNumber(p.currentFileProgress, 1)
            /\ p.totalBytes = 0 => IsNumber(p.overallProgress, 0)

\* the receiver handles the message at the head of its queue
ReceiverDataStep(c) ==
  /\ toR[c] # <<>>
  /\ link[c].rOpen
  /\ toR'[c] = Tail(toR[c])
  /\ link'[c].rOpen

\* C37: a wrong password is not fatal.  When the receiver handles the
\* PasswordRequired that answers it, it is Authenticating with both password
\* flags set and submitPassword is legal; when the sender, after a wrong
\* password, handles a matching UsePassword it sends Info and is Ready; and
\* when the receiver handles that Info it is Ready with both flags cleared
WrongPasswordRecoverable ==
  [][\A c \in Single :
       /\ (ReceiverDataStep(c) /\ Head(toR[c]) = MsgPasswordRequired("Incorrect password")) =>
            /\ recv'[c].status = Authenticating
            /\ recv'[c].isPasswordRequired
            /\ recv'[c].isPasswordInvalid
            /\ recv'[c].connection
       /\ (/\ DataStep(c)
           /\ link[c].sOpen
           /\ PasswordConfigured
           /\ connections[PeerOf(c)] = Some(c)
           /\ ctx[c][1].status = InvalidPassword
           /\ Head(toS[c]) = MsgUsePassword(password)) =>
            /\ Sent(c) = <<MsgInfo(ctx[c][1].filesInfo)>>
            /\ ctx'[c][1].status = Ready
       /\ (ReceiverDataStep(c) /\ Head(toR[c]).type = "Info" /\ recv[c].isPasswordInvalid) =>
            /\ recv'[c].status = Ready
            /\ ~recv'[c].isPasswordRequired
            /\ ~recv'[c].isPasswordInvalid]_vars

\* the receiver was told its password was wrong, has submitted again, and
\* the sender has accepted: it is Ready and its Info is on the way
AcceptedAfterWrongPassword ==
  /\ PasswordConfigured
  /\ recv[1].isPasswordInvalid
  /\ recv[1].status = Authenticating
  /\ used.tries[1] = 2
  /\ toS[1] = <<>>
  /\ ctx[1] # None
  /\ ctx[1][1].status = Ready
  /\ toR[1] = <<MsgInfo(ctx[1][1].filesInfo)>>

\* C38: however many initialize() calls are made on an instance, and however
\* they overlap, at most one Peer is made for it and, on the uploader, at
\* most one channel is created and at most one renewal timer started
InitializeIsIdempotent ==
  \A who \in Instances :
    /\ life[who].peers <= 1
    /\ life[who].channels <= 1
    /\ life[who].started <= 1

\* C39: once stop() has resolved the uploader holds no context, no channel
\* (getShareableLinks is null) and no running renewal timer, and no Chunk
\* is sent on any connection
StopLeavesNothing ==
  life.uploader.stop = "resolved" =>
    /\ \A p \in PeerIds : connections[p] = None
    /\ getShareableLinks(World) = None
    /\ life.uploader.timers = {}
    /\ \A c \in Conns : \A i \in 1..Len(toR[c]) : toR[c][i].type # "Chunk"

====
